---------------------------- MODULE Spec2Model ----------------------------
(***************************************************************************)
(* Model of examples/composition/compreft.ipynb: the subspace assignments  *)
(* of the two datasets and SubloreftIntervention.forward, the LoReFT       *)
(* forward pass gated by a per-example list of subspace indices.           *)
(*                                                                         *)
(* Tensors and Python lists are functions on 0..n-1, so that every index   *)
(* in the model is the index the notebook uses.  Tensor entries are        *)
(* integers: the model covers the linear algebra and the indexing, not     *)
(* floating-point rounding.                                                *)
(***************************************************************************)
EXTENDS Integers, Sequences, FiniteSets, TLC

VARIABLES
    self,                   \* the SubloreftIntervention module: its parameters
    pc,                     \* "idle" | "returned": position of the caller
    call,                   \* the arguments of the call (self, base, subspaces), as passed
    base,                   \* the caller's base tensor, as it is after the call
    subspaces,              \* the caller's index lists, as they are after the call
    res,                    \* what forward computed, returned or raised
    cell,                   \* position in the dataset cell of the notebook
    raw_hellaswag,          \* load_dataset("LeoLM/HellaSwag_de")["train"]
    raw_ultrafeedback,      \* load_dataset("json", ultrafeedback_1k.json)["train"]
    hellaswag_de_dataset,
    ultrafeedback_dataset,
    subspace_dataset

vars == <<self, pc, call, base, subspaces, res, cell, raw_hellaswag,
          raw_ultrafeedback, hellaswag_de_dataset, ultrafeedback_dataset,
          subspace_dataset>>

fwd_vars == <<self, pc, call, base, subspaces, res>>
data_vars == <<cell, raw_hellaswag, raw_ultrafeedback, hellaswag_de_dataset,
               ultrafeedback_dataset, subspace_dataset>>

----------------------------------------------------------------------------
(* Bounds and program constants *)

low_rank_dimension == 8     \* SubloreftIntervention(low_rank_dimension=8)
NumPos == 1                 \* "position": "l1": one intervened position
EmbedDim == 8               \* model.config.hidden_size, scaled down
MaxBatch == 2               \* examples in one batch
MaxSubLen == 1              \* length of a caller-written index list
MaxRows == 2                \* rows of each raw dataset

\* Python's None, and the other marks for a value that is not there.  They are
\* functions on {-1}, which is the domain of no list and no tensor.
None == [i \in {0 - 1} |-> 0]
NotComputed == [i \in {0 - 1} |-> 1]
NoOutput == [i \in {0 - 1} |-> 2]

----------------------------------------------------------------------------
(* Python lists and tensors *)

range(n) == 0 .. (n - 1)

len(l) == Cardinality(DOMAIN l)

\* A Python list literal: <<a, b>> is [a, b], indexed from 0.
List(s) == [i \in range(Len(s)) |-> s[i + 1]]

\* l1 + l2 on Python lists.
Concat(l1, l2) ==
    [i \in range(len(l1) + len(l2)) |->
        IF i < len(l1) THEN l1[i] ELSE l2[i - len(l1)]]

RECURSIVE SumTo(_, _)
\* sum of f[0], ..., f[n-1]
SumTo(f, n) == IF n = 0 THEN 0 ELSE SumTo(f, n - 1) + f[n - 1]

Sum(f) == SumTo(f, len(f))

\* A tensor holds its entries: x with every entry computed once, instead of a
\* formula that is evaluated again at each read.  Tensor(x) = x.
Tensor(x) == CHOOSE y \in {x} : y = y

HELLASWAG_SUBSPACE == List(<<0, 1, 2, 3>>)
INSTRUCT_SUBSPACE == List(<<4, 5, 6, 7>>)
\* subspaces=[[[0,1,2,3,4,5,6,7]]] of the last generate call
BOTH_SUBSPACES == List(<<0, 1, 2, 3, 4, 5, 6, 7>>)

----------------------------------------------------------------------------
(* The parts of LoreftIntervention that forward uses *)

\* rotate_layer(x): x @ rotate_layer.weight, weight of shape (embed_dim, r)
rotate_layer(m, x) ==
    Tensor([i \in DOMAIN x |-> [t \in DOMAIN x[i] |->
        [j \in range(low_rank_dimension) |->
            Sum([d \in range(EmbedDim) |->
                    x[i][t][d] * m.rotate_layer.weight[d][j]])]]])

\* learned_source(x): a linear layer, x @ weight^T + bias, weight of shape (r, embed_dim)
learned_source(m, x) ==
    Tensor([i \in DOMAIN x |-> [t \in DOMAIN x[i] |->
        [j \in range(low_rank_dimension) |->
            Sum([d \in range(EmbedDim) |->
                    x[i][t][d] * m.learned_source.weight[j][d]])
            + m.learned_source.bias[j]]]])

\* act_fn, elementwise: the identity ("linear") or relu
act_fn(m, x) ==
    Tensor([i \in DOMAIN x |-> [t \in DOMAIN x[i] |-> [j \in DOMAIN x[i][t] |->
        IF m.act_fn = "relu" /\ x[i][t][j] < 0 THEN 0 ELSE x[i][t][j]]]])

\* dropout with the rate the notebook constructs the module with (0.0):
\* no element is dropped, in training and in evaluation mode
dropout(m, x) == x

----------------------------------------------------------------------------
(* SubloreftIntervention.forward *)

\* Variant: the assertion left out.
assertion_skipped(subs) == TRUE

\* assert subspaces is not None
subspaces_is_not_None(subs) == subs # None

\* Variant: diff = self.act_fn(self.learned_source(base)), the rotated base
\* not subtracted.
diff_without_rotated_base(m, x, rotated_base) ==
    act_fn(m, learned_source(m, x))

\* diff = self.act_fn(self.learned_source(base)) - rotated_base
diff_of(m, x, rotated_base) ==
    LET src == act_fn(m, learned_source(m, x))
    IN  Tensor([i \in DOMAIN x |-> [t \in DOMAIN x[i] |->
            [j \in range(low_rank_dimension) |->
                src[i][t][j] - rotated_base[i][t][j]]]])

\* An index j into a dimension of the given size is in bounds when
\* -size <= j < size.
in_bounds(j, size) == (0 - size) <= j /\ j < size

\* The position an in-bounds index selects: a negative index counts from the end.
wrap_index(j, size) == IF j < 0 THEN j + size ELSE j

\* Does the loop body for example_i raise IndexError?  diff[example_i, :, S]
\* needs example_i < batch size, and each entry of S in bounds of a dimension
\* of size r (the last dimension of diff and of rotate_layer.weight).
loop_index_error(x, subs, example_i) ==
    \/ example_i >= len(x)
    \/ \E c \in DOMAIN subs[example_i] :
          ~in_bounds(subs[example_i][c], low_rank_dimension)

\* Variant: the entries of diff taken in the reverse order of the list.
LHS_reversed(diff, S, example_i) ==
    Tensor([t \in DOMAIN diff[example_i] |-> [c \in DOMAIN S |->
        diff[example_i][t][wrap_index(S[len(S) - 1 - c], low_rank_dimension)]]])

\* LHS = diff[example_i, :, subspaces[example_i]], of shape (positions, k)
LHS(diff, S, example_i) ==
    Tensor([t \in DOMAIN diff[example_i] |-> [c \in DOMAIN S |->
        diff[example_i][t][wrap_index(S[c], low_rank_dimension)]]])

\* Variant: the first k columns of the rotation, weight[..., :k].T, whatever
\* the list names.
RHS_leading_columns(m, S) ==
    Tensor([c \in DOMAIN S |-> [d \in range(EmbedDim) |->
        m.rotate_layer.weight[d][c]]])

\* RHS = self.rotate_layer.weight[..., subspaces[example_i]].T, of shape (k, embed_dim)
RHS(m, S) ==
    Tensor([c \in DOMAIN S |-> [d \in range(EmbedDim) |->
        m.rotate_layer.weight[d][wrap_index(S[c], low_rank_dimension)]]])

\* The shape of a tensor with two dimensions.
Shape2(x) == <<len(x), IF len(x) = 0 THEN 0 ELSE len(x[0])>>

\* torch.stack(tensors, dim=0) needs a non-empty list of tensors of one shape.
stack_ok(tensors) ==
    /\ len(tensors) > 0
    /\ \A i \in DOMAIN tensors : Shape2(tensors[i]) = Shape2(tensors[0])

\* Variant: a product that keeps only the first selected coordinate of each
\* example instead of summing over the k selected coordinates.
bmm_first_term(A, W) ==
    Tensor([i \in DOMAIN A |-> [t \in DOMAIN A[i] |-> [d \in range(EmbedDim) |->
        IF len(W[i]) = 0 THEN 0 ELSE A[i][t][0] * W[i][0][d]]]])

\* torch.bmm(batched_subspace, batched_weights):
\* (n, positions, k) x (n, k, embed_dim) -> (n, positions, embed_dim)
bmm(A, W) ==
    Tensor([i \in DOMAIN A |-> [t \in DOMAIN A[i] |-> [d \in range(EmbedDim) |->
        Sum([c \in DOMAIN W[i] |-> A[i][t][c] * W[i][c][d]])]]])

\* base + correction broadcasts over the batch dimension: the sizes must be
\* equal, or one of them 1.
broadcast_ok(x, corr) == len(corr) = len(x) \/ len(corr) = 1 \/ len(x) = 1

\* Variant: base += corr, which writes the sum into the caller's tensor.
add_in_place(x, corr) ==
    LET n == IF len(x) >= len(corr) THEN len(x) ELSE len(corr)
        at(z, i) == IF len(z) = 1 THEN z[0] ELSE z[i]
        total == Tensor([i \in range(n) |-> [t \in DOMAIN at(x, i) |->
                            [d \in range(EmbedDim) |->
                                at(x, i)[t][d] + at(corr, i)[t][d]]]])
    IN  [value |-> total, left |-> total]

\* x + corr builds a new tensor ("value") and leaves its operand x as it was
\* ("left").
add(x, corr) ==
    LET n == IF len(x) >= len(corr) THEN len(x) ELSE len(corr)
        at(z, i) == IF len(z) = 1 THEN z[0] ELSE z[i]
    IN  [value |-> Tensor([i \in range(n) |-> [t \in DOMAIN at(x, i) |->
                              [d \in range(EmbedDim) |->
                                  at(x, i)[t][d] + at(corr, i)[t][d]]]]),
         left  |-> x]

Raise(exc, m, x, subs, rotated_base, diff) ==
    [err |-> exc, ret |-> NoOutput, output |-> NoOutput,
     rotated_base |-> rotated_base, diff |-> diff,
     self |-> m, base |-> x, subspaces |-> subs]

\* forward(self, base, source=None, subspaces=None): what it computes, what
\* it returns or raises, and the module and the caller's arguments as it
\* leaves them.
forward(m, x, subs) ==
    IF ~subspaces_is_not_None(subs)
    THEN Raise("AssertionError", m, x, subs, NotComputed, NotComputed)
    ELSE
    LET rotated_base == rotate_layer(m, x)
        diff == diff_of(m, x, rotated_base)
    IN  IF subs = None      \* len(None)
        THEN Raise("TypeError", m, x, subs, rotated_base, diff)
        ELSE IF \E example_i \in range(len(subs)) :
                    loop_index_error(x, subs, example_i)
        THEN Raise("IndexError", m, x, subs, rotated_base, diff)
        ELSE
        LET batched_subspace ==
                Tensor([example_i \in range(len(subs)) |->
                           LHS(diff, subs[example_i], example_i)])
            batched_weights ==
                Tensor([example_i \in range(len(subs)) |->
                           RHS(m, subs[example_i])])
        IN  IF ~stack_ok(batched_subspace) \/ ~stack_ok(batched_weights)
            THEN Raise("RuntimeError", m, x, subs, rotated_base, diff)
            ELSE IF ~broadcast_ok(x, bmm(batched_subspace, batched_weights))
            THEN Raise("RuntimeError", m, x, subs, rotated_base, diff)
            ELSE
            LET sum == add(x, bmm(batched_subspace, batched_weights))
            IN  [err |-> "none",
                 ret |-> dropout(m, sum.value),
                 output |-> sum.value,
                 rotated_base |-> rotated_base, diff |-> diff,
                 self |-> m, base |-> sum.left, subspaces |-> subs]

----------------------------------------------------------------------------
(* The module's parameters and the inputs of a call *)

\* rotate_layer.weight, of shape (embed_dim, r), with orthonormal columns:
\* column j is the unit vector e_j ...
weight_eye == [d \in range(EmbedDim) |-> [j \in range(low_rank_dimension) |->
                  IF d = j THEN 1 ELSE 0]]

\* ... or the unit vector e_(j+1), negated for even j.
weight_shift == [d \in range(EmbedDim) |-> [j \in range(low_rank_dimension) |->
                    IF d = (j + 1) % EmbedDim
                    THEN (IF j % 2 = 0 THEN 0 - 1 ELSE 1) ELSE 0]]

Weights == {weight_eye, weight_shift}

\* learned_source reproducing the rotation: weight = rotate_layer.weight^T, bias 0
source_mirror(w) ==
    [weight |-> [j \in range(low_rank_dimension) |-> [d \in range(EmbedDim) |->
                    w[d][j]]],
     bias   |-> [j \in range(low_rank_dimension) |-> 0]]

\* learned_source with other weights and a bias
source_affine ==
    [weight |-> [j \in range(low_rank_dimension) |-> [d \in range(EmbedDim) |->
                    ((j + 2 * d) % 3) - 1]],
     bias   |-> [j \in range(low_rank_dimension) |-> 2 - j]]

\* the learned source and the activation after it: reproducing the rotation
\* (zero residual), affine, or affine followed by relu
SourceChoices(w) ==
    {<<source_mirror(w), "linear">>, <<source_affine, "linear">>,
     <<source_affine, "relu">>}

\* SubloreftIntervention(embed_dim=..., low_rank_dimension=8) with some
\* values of its parameters
Modules ==
    UNION {{[rotate_layer |-> [weight |-> w], learned_source |-> sa[1],
             act_fn |-> sa[2]] : sa \in SourceChoices(w)} :
           w \in Weights}

\* hidden-state vectors of size embed_dim
hidden_a == [d \in range(EmbedDim) |-> (d % 3) - 1]
hidden_b == [d \in range(EmbedDim) |-> 2 - d]
Hiddens == {hidden_a, hidden_b}

\* base tensors of shape (batch, positions, embed_dim)
Bases ==
    UNION {[range(B) -> [range(NumPos) -> Hiddens]] : B \in 1 .. MaxBatch}

\* index values a caller may write besides those of the notebook's lists:
\* one before the first coordinate and one past the last coordinate
IndexSample == {0 - 1, low_rank_dimension}

\* index lists: the three lists of the notebook and the lists a caller writes
IndexLists ==
    {HELLASWAG_SUBSPACE, INSTRUCT_SUBSPACE, BOTH_SUBSPACES}
    \cup UNION {[range(k) -> IndexSample] : k \in 0 .. MaxSubLen}

\* the subspaces argument: absent, or a list of index lists
SubspaceArgs ==
    {None} \cup UNION {[range(k) -> IndexLists] : k \in 0 .. MaxBatch}

----------------------------------------------------------------------------
(* The intervention: construction, calls, training *)

NoCall == [self |-> None, base |-> None, subspaces |-> None]
NoResult == [err |-> "no call", ret |-> NoOutput, output |-> NoOutput,
             rotated_base |-> NotComputed, diff |-> NotComputed]

InitForward ==
    /\ self \in Modules
    /\ pc = "idle"
    /\ call = NoCall
    /\ base = None
    /\ subspaces = None
    /\ res = NoResult

\* The hook calls forward(base, subspaces=...) and the call returns or raises.
Forward(x, subs) ==
    /\ pc = "idle"
    /\ \E r \in {forward(self, x, subs)} :
           /\ self' = r.self
           /\ base' = r.base
           /\ subspaces' = r.subspaces
           /\ res' = [err |-> r.err, ret |-> r.ret, output |-> r.output,
                      rotated_base |-> r.rotated_base, diff |-> r.diff]
    /\ call' = [self |-> self, base |-> x, subspaces |-> subs]
    /\ pc' = "returned"
    /\ UNCHANGED data_vars

\* The caller is done with the call: its tensors go out of scope.
EndCall ==
    /\ pc = "returned"
    /\ pc' = "idle"
    /\ call' = NoCall
    /\ base' = None
    /\ subspaces' = None
    /\ res' = NoResult
    /\ UNCHANGED <<self, data_vars>>

\* trainer.train(): the optimizer moves the rotation and the learned source
\* to other values; the activation is fixed at construction.
trainer_train ==
    /\ pc = "idle"
    /\ \E m \in Modules : m.act_fn = self.act_fn /\ self' = m
    /\ UNCHANGED <<pc, call, base, subspaces, res, data_vars>>

\* The dataset cell ran before the module is built; the calls of forward
\* leave its datasets alone.
InitDataIdle ==
    /\ cell = "concatenated"
    /\ raw_hellaswag = << >>
    /\ raw_ultrafeedback = << >>
    /\ hellaswag_de_dataset = << >>
    /\ ultrafeedback_dataset = << >>
    /\ subspace_dataset = << >>

Init == InitForward /\ InitDataIdle

\* a call of forward with some base and some subspaces argument
forward_call ==
    /\ pc = "idle"
    /\ \E subs \in SubspaceArgs : \E x \in Bases : Forward(x, subs)

Next ==
    \/ forward_call
    \/ EndCall
    \/ trainer_train

Spec == Init /\ [][Next]_vars

----------------------------------------------------------------------------
(* The dataset cell: subspace assignments of the two tasks *)

eos_token == "</s>"

\* int(examples["label"]) on the labels of the dataset
int(label) ==
    CASE label = "0" -> 0 [] label = "1" -> 1 [] label = "2" -> 2
      [] label = "3" -> 3

\* raw rows of LeoLM/HellaSwag_de
Endings == {List(<<"e0", "e1", "e2">>), List(<<"e0", "e1", "e2", "e3">>)}
RawHellaswagRows ==
    [ctx : {"ctx"}, endings_de : Endings, label : {"0", "1", "2", "3"}]

\* raw rows of ultrafeedback_1k.json; output is a list of tokens
RawUltrafeedbackRows ==
    [instruction : {"instr"}, input : {""},
     output : {List(<<"out">>), List(<<"out", "more">>)}]

Datasets(Rows) == UNION {[range(n) -> Rows] : n \in 0 .. MaxRows}

\* preprocess_hellaswag_de_for_reft(examples): the row with its three new fields
preprocess_hellaswag_de_for_reft(examples) ==
    LET label == int(examples.label)
        output == IF len(examples.endings_de) < 4
                  THEN examples.endings_de[len(examples.endings_de) - 1]
                  ELSE examples.endings_de[label]
    IN  [ctx |-> examples.ctx, endings_de |-> examples.endings_de,
         label |-> examples.label,
         instruction |-> examples.ctx,
         output |-> output,
         subspaces |-> HELLASWAG_SUBSPACE]

\* Variant: the instruction rows tagged with the other task's subspace.
preprocess_ultrafeedback_wrong_subspace(examples) ==
    [instruction |-> examples.instruction, input |-> examples.input,
     subspaces |-> HELLASWAG_SUBSPACE,
     output |-> Concat(examples.output, List(<<eos_token>>))]

\* preprocess_ultrafeedback_for_reft(examples)
preprocess_ultrafeedback_for_reft(examples) ==
    [instruction |-> examples.instruction, input |-> examples.input,
     subspaces |-> INSTRUCT_SUBSPACE,
     output |-> Concat(examples.output, List(<<eos_token>>))]

\* raw_dataset.map(preprocess_hellaswag_de_for_reft), then
\* remove_columns(drop_features)["train"]: the columns of the raw dataset go
hellaswag_cell ==
    /\ cell = "start"
    /\ hellaswag_de_dataset' =
          [n \in DOMAIN raw_hellaswag |->
              LET row == preprocess_hellaswag_de_for_reft(raw_hellaswag[n])
              IN  [instruction |-> row.instruction, output |-> row.output,
                   subspaces |-> row.subspaces]]
    /\ cell' = "hellaswag"
    /\ UNCHANGED <<raw_hellaswag, raw_ultrafeedback, ultrafeedback_dataset,
                   subspace_dataset, fwd_vars>>

\* raw_dataset.map(preprocess_ultrafeedback_for_reft), then
\* remove_columns(["input"])
ultrafeedback_cell ==
    /\ cell = "hellaswag"
    /\ ultrafeedback_dataset' =
          [n \in DOMAIN raw_ultrafeedback |->
              LET row == preprocess_ultrafeedback_for_reft(raw_ultrafeedback[n])
              IN  [instruction |-> row.instruction, output |-> row.output,
                   subspaces |-> row.subspaces]]
    /\ cell' = "ultrafeedback"
    /\ UNCHANGED <<raw_hellaswag, raw_ultrafeedback, hellaswag_de_dataset,
                   subspace_dataset, fwd_vars>>

\* subspace_dataset = concatenate_datasets([hellaswag_de_dataset, ultrafeedback_dataset])
concatenate_datasets ==
    /\ cell = "ultrafeedback"
    /\ subspace_dataset' = Concat(hellaswag_de_dataset, ultrafeedback_dataset)
    /\ cell' = "concatenated"
    /\ UNCHANGED <<raw_hellaswag, raw_ultrafeedback, hellaswag_de_dataset,
                   ultrafeedback_dataset, fwd_vars>>

\* The notebook before the dataset cell runs, with the two raw datasets as
\* they are loaded.
InitData ==
    /\ cell = "start"
    /\ raw_hellaswag \in Datasets(RawHellaswagRows)
    /\ raw_ultrafeedback \in Datasets(RawUltrafeedbackRows)
    /\ hellaswag_de_dataset = << >>
    /\ ultrafeedback_dataset = << >>
    /\ subspace_dataset = << >>
    /\ self = None
    /\ pc = "idle"
    /\ call = NoCall
    /\ base = None
    /\ subspaces = None
    /\ res = NoResult

NextData ==
    \/ hellaswag_cell
    \/ ultrafeedback_cell
    \/ concatenate_datasets

SpecData == InitData /\ [][NextData]_vars

----------------------------------------------------------------------------
(* Properties of SubloreftIntervention.forward *)

Returned == pc = "returned"
ReturnedOutput == pc = "returned" /\ res.err = "none"
Given == call.subspaces # None

\* the index lists of the call, and the hidden states they are paired with
Examples == DOMAIN call.base
Listed == IF Given THEN DOMAIN call.subspaces ELSE {}

\* a list of valid column indices of the rotation: 0 <= j < r
ValidList(S) == \A c \in DOMAIN S : S[c] \in range(low_rank_dimension)

\* one valid index list for each example of the batch
OneValidListEach ==
    /\ Given
    /\ Listed = Examples
    /\ \A i \in Listed : ValidList(call.subspaces[i])

\* act(learned_source(x)) - rotate(x): the residual in the r coordinates
Residual(m, x) ==
    LET src == act_fn(m, learned_source(m, x))
        rot == rotate_layer(m, x)
    IN  Tensor([i \in DOMAIN x |-> [t \in DOMAIN x[i] |->
            [j \in range(low_rank_dimension) |-> src[i][t][j] - rot[i][t][j]]]])

\* h + the sum over the entries j of S of resid[j] * R[:, j], for the hidden
\* state h (positions x embed_dim) of one example
GatedOutput(m, h, resid, S) ==
    [t \in DOMAIN h |-> [d \in range(EmbedDim) |->
        h[t][d] + Sum([c \in DOMAIN S |->
                          resid[t][S[c]] * m.rotate_layer.weight[d][S[c]]])]]

\* The module with every coordinate outside S changed: the rotation column
\* negated, the row and the bias of the learned source moved.
ChangedOutside(m, S) ==
    LET out(j) == \A c \in DOMAIN S : S[c] # j
    IN  [rotate_layer |->
            [weight |-> [d \in range(EmbedDim) |->
                [j \in range(low_rank_dimension) |->
                    IF out(j) THEN 0 - m.rotate_layer.weight[d][j]
                    ELSE m.rotate_layer.weight[d][j]]]],
         learned_source |->
            [weight |-> [j \in range(low_rank_dimension) |->
                [d \in range(EmbedDim) |->
                    IF out(j) THEN m.learned_source.weight[j][d] + 1
                    ELSE m.learned_source.weight[j][d]]],
             bias |-> [j \in range(low_rank_dimension) |->
                    IF out(j) THEN m.learned_source.bias[j] + 3
                    ELSE m.learned_source.bias[j]]],
         act_fn |-> m.act_fn]

\* the batch of the single example h, and the list of the single index list S
Single(h) == [i \in range(1) |-> h]

LoreftForward(m, x) ==
    LET resid == Residual(m, x)
    IN  [i \in DOMAIN x |-> [t \in DOMAIN x[i] |-> [d \in range(EmbedDim) |->
            x[i][t][d] + Sum([j \in range(low_rank_dimension) |->
                                resid[i][t][j] * m.rotate_layer.weight[d][j]])]]]

\* every example's index list is the full range [0, ..., r-1]
FullRangeEach ==
    /\ Given
    /\ Listed = Examples
    /\ \A i \in Listed : call.subspaces[i] = [j \in range(low_rank_dimension) |-> j]

\* C2: a call in which every example's index list is the full range 0..r-1
\* returns what the un-gated low-rank intervention returns for the same base
\* and parameters.
C2_FullRangeIsLoreft ==
    (Returned /\ FullRangeEach) =>
        /\ res.err = "none"
        /\ res.ret = LoreftForward(call.self, call.base)

\* a full-range call on a batch of two examples whose residual is not zero
C2_Witness ==
    /\ Returned
    /\ FullRangeEach
    /\ len(call.base) = 2
    /\ res.ret # call.base

\* C3: a call without an index list raises AssertionError before it computes
\* anything; it returns no output.
C3_AbsentSubspacesAsserts ==
    (Returned /\ ~Given) =>
        /\ res.err = "AssertionError"
        /\ res.ret = NoOutput
        /\ res.output = NoOutput
        /\ res.rotated_base = NotComputed
        /\ res.diff = NotComputed

\* a call made with subspaces=None has ended
C3_Witness == Returned /\ call.subspaces = None /\ call.base # None

\* C4, as claimed: in a batch with one valid index list per example, the
\* output of example i is the output forward gives example i alone, whatever
\* the other examples and their lists are.
C4_PerExampleIndependence ==
    (Returned /\ OneValidListEach) =>
        \A i \in Examples :
            \A r \in {forward(call.self, Single(call.base[i]),
                              Single(call.subspaces[i]))} :
                /\ res.err = r.err
                /\ res.err = "none" => res.ret[i] = r.ret[0]

\* C5, as claimed: a batch with one valid index list per example, of whatever
\* lengths, gets an output of the shape of the input batch, each example's
\* correction computed from its own list.
C5_ListsOfAnyLength ==
    (Returned /\ OneValidListEach) =>
        /\ res.err = "none"
        /\ DOMAIN res.ret = DOMAIN call.base
        /\ \A resid \in {Residual(call.self, call.base)} :
           \A i \in Examples :
              res.ret[i] = GatedOutput(call.self, call.base[i], resid[i],
                                       call.subspaces[i])

C7_ForwardMutatesNothing ==
    Returned =>
        /\ self = call.self
        /\ base = call.base
        /\ subspaces = call.subspaces
        /\ \A r \in {forward(self, base, subspaces)} :
              res.err = r.err /\ res.ret = r.ret

\* a call that added a correction to the base has ended
C7_Witness ==
    /\ ReturnedOutput
    /\ res.ret # call.base
    /\ base = call.base

\* C8, as claimed: a call with an index outside 0..r-1 in some list raises
\* and returns no output.
C8_InvalidIndexRaises ==
    (/\ Returned
     /\ Given
     /\ \E i \in Listed : ~ValidList(call.subspaces[i]))
        => res.err # "none" /\ res.ret = NoOutput

\* the set of the indices a list names
Indices(S) == {S[c] : c \in DOMAIN S}

\* the entries a, ..., b-1 of the list S, as a list
Slice(S, a, b) == [c \in range(b - a) |-> S[a + c]]

\* output minus base for one example (positions x embed_dim), before dropout
Correction(out, h) ==
    [t \in DOMAIN h |-> [d \in range(EmbedDim) |-> out[t][d] - h[t][d]]]

\* the sum of two corrections of one example
AddCorrections(c1, c2) ==
    [t \in DOMAIN c1 |-> [d \in range(EmbedDim) |-> c1[t][d] + c2[t][d]]]

\* C11: in every call that returns, the correction (output minus base,
\* before dropout) of an example whose list of valid coordinates is the
\* concatenation S1 + S2 of two disjoint lists is the sum of the corrections
\* forward produces for the same base and parameters with S1 alone and with
\* S2 alone, and both of these calls return; this for every way of cutting
\* the list in two, [0..7] = [0,1,2,3] + [4,5,6,7] among them.
C11_CompositionIsAdditive ==
    (ReturnedOutput /\ Given) =>
        \A i \in Listed \cap Examples :
            ValidList(call.subspaces[i]) =>
                \A cut \in 0 .. len(call.subspaces[i]) :
                \A S1 \in {Slice(call.subspaces[i], 0, cut)} :
                \A S2 \in {Slice(call.subspaces[i], cut,
                                 len(call.subspaces[i]))} :
                \A r1 \in {forward(call.self, Single(call.base[i]),
                                   Single(S1))} :
                \A r2 \in {forward(call.self, Single(call.base[i]),
                                   Single(S2))} :
                    /\ Concat(S1, S2) = call.subspaces[i]
                    /\ Indices(S1) \cap Indices(S2) = {}
                    /\ r1.err = "none"
                    /\ r2.err = "none"
                    /\ Correction(res.output[i], call.base[i]) =
                          AddCorrections(
                              Correction(r1.output[0], call.base[i]),
                              Correction(r2.output[0], call.base[i]))

\* a call that returned for the list [0..7], where the corrections for
\* [0,1,2,3] alone and for [4,5,6,7] alone are both non-zero and differ
C11_Witness ==
    /\ ReturnedOutput
    /\ Given
    /\ \E i \in Listed \cap Examples :
          /\ call.subspaces[i] = Concat(HELLASWAG_SUBSPACE, INSTRUCT_SUBSPACE)
          /\ \E r1 \in {forward(call.self, Single(call.base[i]),
                                 Single(HELLASWAG_SUBSPACE))} :
             \E r2 \in {forward(call.self, Single(call.base[i]),
                                 Single(INSTRUCT_SUBSPACE))} :
                /\ r1.err = "none" /\ r2.err = "none"
                /\ r1.output[0] # call.base[i]
                /\ r2.output[0] # call.base[i]
                /\ r1.output[0] # r2.output[0]
                /\ res.output[i] # r1.output[0]
                /\ res.output[i] # r2.output[0]

\* C12, as claimed: a call given valid, non-empty index lists whose number
\* differs from the number of examples of the batch, fewer or more, raises
\* and returns no output, so that no example gets a correction computed
\* from another example's residual or index list.
C12_ListCountMustMatch ==
    (/\ Returned
     /\ Given
     /\ len(call.subspaces) # len(call.base)
     /\ \A i \in Listed : /\ ValidList(call.subspaces[i])
                          /\ len(call.subspaces[i]) > 0)
        => res.err # "none" /\ res.ret = NoOutput

----------------------------------------------------------------------------
(* Properties of the dataset cell *)

HellaswagRows == range(len(hellaswag_de_dataset))
UltrafeedbackRows == DOMAIN subspace_dataset \ HellaswagRows

\* C10: in the combined dataset the rows that come from the German dataset
\* carry [0,1,2,3] and the rows that come from the instruction dataset carry
\* [4,5,6,7]; a row of one task and a row of the other have disjoint lists
\* of the same length, and every index is a column index 0..7 of the
\* rotation.
C10_RowsCarryTheirTaskSubspace ==
    cell = "concatenated" =>
        /\ len(subspace_dataset) = len(raw_hellaswag) + len(raw_ultrafeedback)
        /\ \A n \in HellaswagRows :
              subspace_dataset[n].subspaces = List(<<0, 1, 2, 3>>)
        /\ \A n \in UltrafeedbackRows :
              subspace_dataset[n].subspaces = List(<<4, 5, 6, 7>>)
        /\ \A n \in DOMAIN subspace_dataset :
              ValidList(subspace_dataset[n].subspaces)
        /\ \A n \in HellaswagRows, k \in UltrafeedbackRows :
              /\ Indices(subspace_dataset[n].subspaces)
                    \cap Indices(subspace_dataset[k].subspaces) = {}
              /\ len(subspace_dataset[n].subspaces)
                    = len(subspace_dataset[k].subspaces)

\* the combined dataset holds rows of both tasks
C10_Witness ==
    /\ cell = "concatenated"
    /\ HellaswagRows # {}
    /\ UltrafeedbackRows # {}

============================================================================
